---- MODULE Spec2Model ----
(***************************************************************************)
(* radar-admin: the item form (RadarItemForm.tsx) with its two queries,    *)
(* its reconciliation effect, its association field array and its submit   *)
(* handler, and the radar-level ring and quadrant editors (RingFields.tsx, *)
(* QuadrantFields.tsx).                                                    *)
(*                                                                         *)
(* Strings of the program are strings here.  A JavaScript object used as a *)
(* map is a sequence of [key, value] entries in insertion order, so that   *)
(* Object.keys can be computed the way the language computes it.           *)
(***************************************************************************)
EXTENDS Integers, Sequences, FiniteSets, TLC

VARIABLES
  serverRadars,  \* what getRadars() resolves with: the radar catalog (line 50)
  serverItem,    \* item.radars of what getRadarItem() resolves with (line 55)
  itemId,        \* the itemId prop: TRUE when present (edit), FALSE when absent (line 45)
  radars,        \* useQuery(['radars']): [status, data] (lines 48-51)
  item,          \* useQuery(['item', itemId]): [status, data], data = item.radars (lines 53-57)
  itemRadars,    \* useState<ItemRadarsMap> (line 58)
  fields,        \* the useFieldArray 'radars' rows of the item form (lines 73-76)
  crashed,       \* the effect threw at line 104: the component tree is unmounted
  isSubmitting,  \* formState.isSubmitting (line 69)
  submission,    \* where handleSubmit(formSubmit) stands (lines 135-154)
  serviceCalls,  \* service calls issued since the last submit click (lines 139, 143)
  snackbars,     \* addSnackbar calls since the last submit click (lines 140, 144, 148)
  rings,         \* the useFieldArray 'rings' rows of the radar form (RingFields.tsx 23-26)
  quadrants      \* the useFieldArray 'quadrants' rows of the radar form (QuadrantFields.tsx 22-25)

formVars == <<serverRadars, serverItem, itemId, radars, item, itemRadars, fields, crashed>>
submitVars == <<isSubmitting, submission, serviceCalls, snackbars>>
editorVars == <<rings, quadrants>>
vars == <<formVars, submitVars, editorVars>>

----------------------------------------------------------------------------
(* Bounds and domains *)

MaxRows == 2   \* rows the user adds before the model stops adding
MaxWire == 3   \* length of item.radars in the load-and-submit specification

MAX_RINGS == 4
MAX_QUADRANTS == 4

\* Radar ids are strings.  "1" and "2" are canonical array indices, "r1" is not.
RadarIds == {"1", "2", "r1"}
QuadrantNames == {"q1", "q2", "q3"}
\* Text a user types into a ring or quadrant field
Labels == {"a", "b"}

Range(s) == {s[i] : i \in DOMAIN s}

Radar(id, qs) == [id |-> id, name |-> "Radar " \o id, quadrants |-> qs]

\* Catalogs the server may hold, for the load-and-submit specification
Catalogs ==
  { <<>>,
    <<Radar("r1", <<"q1", "q2", "q3">>), Radar("2", <<"q3", "q1">>), Radar("1", <<"q2">>)>>,
    <<Radar("2", <<"q1", "q2">>), Radar("r1", <<"q3", "q2">>)>> }

\* Catalogs and items of the editing specification
FormCatalogs ==
  { <<>>,
    <<Radar("r1", <<"q2", "q1">>)>>,
    <<Radar("2", <<"q1", "q2">>), Radar("r1", <<"q3", "q2">>)>> }

Pair(id, q) == [id |-> id, quadrant |-> q]

FormItems ==
  { <<>>,
    <<Pair("r1", "q2")>>,
    <<Pair("r1", "q1"), Pair("2", "q2"), Pair("r1", "q1")>>,
    <<Pair("2", "q3")>> }

WirePairs == {Pair(id, q) : id \in RadarIds, q \in QuadrantNames}
WireLists == UNION {[1..n -> WirePairs] : n \in 0..MaxWire}

----------------------------------------------------------------------------
(* JavaScript objects used as maps *)

EmptyObject == <<>>

HasKey(obj, k) == \E i \in DOMAIN obj : obj[i].key = k

Lookup(obj, k) == obj[CHOOSE i \in DOMAIN obj : obj[i].key = k].value

\* A canonical array index: the decimal form of a small non-negative integer
IsArrayIndex(k) == \E n \in 0..9 : ToString(n) = k

IndexValue(k) == CHOOSE n \in 0..9 : ToString(n) = k

IsOtherKey(k) == ~IsArrayIndex(k)

InsertionKeys(obj) == [i \in DOMAIN obj |-> obj[i].key]

\* Object.keys: array-index keys in ascending numeric order, then the other
\* string keys in insertion order
ObjectKeys(obj) ==
  SortSeq(SelectSeq(InsertionKeys(obj), IsArrayIndex),
          LAMBDA a, b : IndexValue(a) < IndexValue(b))
    \o SelectSeq(InsertionKeys(obj), IsOtherKey)

----------------------------------------------------------------------------
(* Formatters *)

formatSelectItem(v) == [id |-> v, label |-> v]

formatSelectData(vs) == [i \in DOMAIN vs |-> formatSelectItem(vs[i])]

formatItemRadar(r) == [radarId |-> r.radarId, label |-> r.label, quadrants |-> r.quadrants]

\* one {id, quadrant} pair per selected quadrant option of each row, in row order
RECURSIVE transformItemFormData(_)
transformItemFormData(rows) ==
  IF rows = <<>> THEN <<>>
  ELSE [i \in DOMAIN Head(rows).quadrants |->
          Pair(Head(rows).radarId, Head(rows).quadrants[i].id)]
       \o transformItemFormData(Tail(rows))

getRadarsList(catalog) == [i \in DOMAIN catalog |-> [id |-> catalog[i].id, label |-> catalog[i].name]]

defaultValues == [radars |-> <<>>]

----------------------------------------------------------------------------
(* The reconciliation effect *)

Loaded(q) == q.status = "success"

Pending == [status |-> "pending", data |-> <<>>]

Success(d) == [status |-> "success", data |-> d]

\* the guard written as (!radars && !item)
EffectRunsOnEither(radarsQ, itemQ) == Loaded(radarsQ) \/ Loaded(itemQ)

\* if (!radars || !item) return
EffectRuns(radarsQ, itemQ) == Loaded(radarsQ) /\ Loaded(itemQ)

\* radars.reduce((acc, r) => { acc[r.id] = r; return acc }, {}): the catalog's ids
RadarsMapKeys(catalog) == {catalog[i].id : i \in DOMAIN catalog}

\* radarsMap[radarId]: the last radar of the catalog with that id
RadarsMapGet(catalog, id) ==
  catalog[CHOOSE i \in DOMAIN catalog :
            /\ catalog[i].id = id
            /\ \A j \in DOMAIN catalog : catalog[j].id = id => j <= i]

\* the reducer assigning the quadrant instead of pushing it
PushOverwriting(acc, p) ==
  IF HasKey(acc, p.id)
    THEN [i \in DOMAIN acc |->
            IF acc[i].key = p.id
              THEN [key |-> p.id, value |-> [quadrants |-> <<p.quadrant>>]]
              ELSE acc[i]]
    ELSE Append(acc, [key |-> p.id, value |-> [quadrants |-> <<p.quadrant>>]])

\* acc[id] = acc[id] || { quadrants: [] }; acc[id].quadrants.push(quadrant)
PushQuadrant(acc, p) ==
  IF HasKey(acc, p.id)
    THEN [i \in DOMAIN acc |->
            IF acc[i].key = p.id
              THEN [key |-> p.id,
                    value |-> [quadrants |-> Append(acc[i].value.quadrants, p.quadrant)]]
              ELSE acc[i]]
    ELSE Append(acc, [key |-> p.id, value |-> [quadrants |-> <<p.quadrant>>]])

\* item.radars.reduce(..., {})
RECURSIVE ItemRadarsMapOf(_)
ItemRadarsMapOf(wire) ==
  IF wire = <<>> THEN EmptyObject
  ELSE PushQuadrant(ItemRadarsMapOf(SubSeq(wire, 1, Len(wire) - 1)), wire[Len(wire)])

\* radarsMap[radarId].name throws for a radar id the catalog lacks
EffectThrows(catalog, wire) ==
  \E i \in DOMAIN wire : wire[i].id \notin RadarsMapKeys(catalog)

FormattedItemRadars(catalog, wire) ==
  LET itemRadarsMap == ItemRadarsMapOf(wire)
      keys == ObjectKeys(itemRadarsMap)
  IN  [k \in DOMAIN keys |->
         formatItemRadar([radarId |-> keys[k],
                          label |-> RadarsMapGet(catalog, keys[k]).name,
                          quadrants |-> formatSelectData(Lookup(itemRadarsMap, keys[k]).quadrants)])]

\* The effect of lines 78-116, run after a render in which radars or item changed
Effect(radarsQ, itemQ) ==
  IF ~EffectRuns(radarsQ, itemQ)
    THEN UNCHANGED <<itemRadars, fields, crashed>>
    ELSE IF EffectThrows(radarsQ.data, itemQ.data)
      THEN /\ crashed' = TRUE
           /\ UNCHANGED <<itemRadars, fields>>
      ELSE /\ itemRadars' = ItemRadarsMapOf(itemQ.data)
           /\ fields' = FormattedItemRadars(radarsQ.data, itemQ.data)
           /\ UNCHANGED crashed

----------------------------------------------------------------------------
(* Queries *)

RadarsFetched ==
  /\ ~crashed
  /\ ~Loaded(radars)
  /\ radars' = Success(serverRadars)
  /\ Effect(radars', item)
  /\ UNCHANGED <<serverRadars, serverItem, itemId, item, submitVars, editorVars>>

ItemFetched ==
  /\ ~crashed
  /\ itemId
  /\ ~Loaded(item)
  /\ item' = Success(serverItem)
  /\ Effect(radars, item')
  /\ UNCHANGED <<serverRadars, serverItem, itemId, radars, submitVars, editorVars>>

----------------------------------------------------------------------------
(* The association rows of the item form *)

EmptyRow == [radarId |-> "", label |-> "", quadrants |-> <<>>]

FieldArrayAppend(fs, v) == Append(fs, v)

\* remove(index) dropping the last row whatever the index
FieldArrayRemoveLast(fs, index) == SubSeq(fs, 1, Len(fs) - 1)

FieldArrayRemove(fs, index) == SubSeq(fs, 1, index - 1) \o SubSeq(fs, index + 1, Len(fs))

\* disabled={fields.length === radars?.length}
AddDisabled(fs, radarsQ) == Loaded(radarsQ) /\ Len(fs) = Len(radarsQ.data)

\* {radars && fields.map(...)}: an empty array is truthy
RowsRendered(radarsQ) == Loaded(radarsQ)

\* the remove button shown for a single row too
RemoveShownAlways(fs) == Len(fs) >= 1

\* {fields.length > 1 && <Button ... onClick={() => remove(index)} />}
RemoveShown(fs) == Len(fs) > 1

\* radars.find((r) => r.id === id): the first match
FindRadar(catalog, id) ==
  catalog[CHOOSE i \in DOMAIN catalog :
            /\ catalog[i].id = id
            /\ \A j \in DOMAIN catalog : catalog[j].id = id => i <= j]

InCatalog(catalog, id) == \E i \in DOMAIN catalog : catalog[i].id = id

\* the handler ignoring the item's persisted quadrants
AllQuadrantsOnly(itemRadarsObj, catalog, selectedRadarId) ==
  IF InCatalog(catalog, selectedRadarId)
    THEN FindRadar(catalog, selectedRadarId).quadrants
    ELSE <<>>

\* the handler reading the quadrants of the catalog's first radar
FirstRadarQuadrants(itemRadarsObj, catalog, selectedRadarId) ==
  IF HasKey(itemRadarsObj, selectedRadarId)
    THEN Lookup(itemRadarsObj, selectedRadarId).quadrants
    ELSE catalog[1].quadrants

\* activeQuadrants ?? allQuadrants (lines 123-126)
ChosenQuadrants(itemRadarsObj, catalog, selectedRadarId) ==
  IF HasKey(itemRadarsObj, selectedRadarId)
    THEN Lookup(itemRadarsObj, selectedRadarId).quadrants
    ELSE IF InCatalog(catalog, selectedRadarId)
      THEN FindRadar(catalog, selectedRadarId).quadrants
      ELSE <<>>

handleRadarChange(index, selectedRadarId) ==
  IF selectedRadarId = "" \/ ~Loaded(radars)
    THEN UNCHANGED fields
    ELSE IF InCatalog(radars.data, selectedRadarId)
      THEN fields' = [fields EXCEPT ![index] =
             [radarId |-> selectedRadarId,
              label |-> FindRadar(radars.data, selectedRadarId).name,
              quadrants |-> formatSelectData(
                 ChosenQuadrants(itemRadars, radars.data, selectedRadarId))]]
      ELSE UNCHANGED fields

AppendRow ==
  /\ ~crashed
  /\ ~AddDisabled(fields, radars)
  /\ Len(fields) < MaxRows
  /\ fields' = FieldArrayAppend(fields, EmptyRow)
  /\ UNCHANGED <<serverRadars, serverItem, itemId, radars, item, itemRadars, crashed,
                 submitVars, editorVars>>

RemoveRow(index) ==
  /\ ~crashed
  /\ RowsRendered(radars)
  /\ RemoveShown(fields)
  /\ index \in DOMAIN fields
  /\ fields' = FieldArrayRemove(fields, index)
  /\ UNCHANGED <<serverRadars, serverItem, itemId, radars, item, itemRadars, crashed,
                 submitVars, editorVars>>

\* the radar select of row index: one of the items getRadarsList(radars) offers
ChangeRadar(index, selected) ==
  /\ ~crashed
  /\ RowsRendered(radars)
  /\ index \in DOMAIN fields
  /\ selected \in Range(getRadarsList(radars.data))
  /\ handleRadarChange(index, selected.id)
  /\ UNCHANGED <<serverRadars, serverItem, itemId, radars, item, itemRadars, crashed,
                 submitVars, editorVars>>

\* items={formatSelectData(radars?.find((r) => r.id === radarId)?.quadrants)}
QuadrantItems(catalog, radarId) ==
  IF InCatalog(catalog, radarId)
    THEN formatSelectData(FindRadar(catalog, radarId).quadrants)
    ELSE <<>>

\* the quadrants multi-select of row index: pick an offered item not yet selected
SelectQuadrant(index, option) ==
  /\ ~crashed
  /\ RowsRendered(radars)
  /\ index \in DOMAIN fields
  /\ option \in Range(QuadrantItems(radars.data, fields[index].radarId))
  /\ option \notin Range(fields[index].quadrants)
  /\ fields' = [fields EXCEPT ![index].quadrants = Append(@, option)]
  /\ UNCHANGED <<serverRadars, serverItem, itemId, radars, item, itemRadars, crashed,
                 submitVars, editorVars>>

\* the quadrants multi-select of row index: drop the selected value at position pos
DeselectQuadrant(index, pos) ==
  /\ ~crashed
  /\ RowsRendered(radars)
  /\ index \in DOMAIN fields
  /\ pos \in DOMAIN fields[index].quadrants
  /\ fields' = [fields EXCEPT ![index].quadrants =
                   SubSeq(@, 1, pos - 1) \o SubSeq(@, pos + 1, Len(@))]
  /\ UNCHANGED <<serverRadars, serverItem, itemId, radars, item, itemRadars, crashed,
                 submitVars, editorVars>>

----------------------------------------------------------------------------
(* Submission: handleSubmit(formSubmit) *)

\* disabled={isSubmitting}
SubmitEnabled(busy) == ~busy

\* formSubmit calling createRadarItem whatever itemId is
AlwaysCreate(hasItemId) == "createRadarItem"

\* if (itemId) updateRadarItem(...) else createRadarItem(...)
ServiceFor(hasItemId) == IF hasItemId THEN "updateRadarItem" ELSE "createRadarItem"

SubmitClick ==
  /\ ~crashed
  /\ SubmitEnabled(isSubmitting)
  /\ isSubmitting' = TRUE
  /\ submission' = "validating"
  /\ serviceCalls' = <<>>
  /\ snackbars' = <<>>
  /\ UNCHANGED <<formVars, editorVars>>

\* the resolver reports errors: formSubmit is not called
ValidationFails ==
  /\ ~crashed
  /\ submission = "validating"
  /\ submission' = "invalid"
  /\ isSubmitting' = FALSE
  /\ UNCHANGED <<formVars, serviceCalls, snackbars, editorVars>>

\* formSubmit runs up to its await
ValidationPasses ==
  /\ ~crashed
  /\ submission = "validating"
  /\ submission' = "awaiting"
  /\ serviceCalls' = Append(serviceCalls,
        [service |-> ServiceFor(itemId), data |-> transformItemFormData(fields)])
  /\ UNCHANGED <<formVars, isSubmitting, snackbars, editorVars>>

ServiceResolves ==
  /\ ~crashed
  /\ submission = "awaiting"
  /\ snackbars' = Append(snackbars, [status |-> "success"])
  /\ submission' = "resolved"
  /\ isSubmitting' = FALSE
  /\ UNCHANGED <<formVars, serviceCalls, editorVars>>

ServiceRejects ==
  /\ ~crashed
  /\ submission = "awaiting"
  /\ snackbars' = Append(snackbars, [status |-> "alert"])
  /\ submission' = "rejected"
  /\ isSubmitting' = FALSE
  /\ UNCHANGED <<formVars, serviceCalls, editorVars>>

----------------------------------------------------------------------------
(* The ring and quadrant editors of the radar form *)

\* disabled={fields.length >= MAX_RINGS}
RingAddDisabled(fs) == Len(fs) >= MAX_RINGS

\* disabled={fields.length >= MAX_QUADRANTS}
QuadrantAddDisabled(fs) == Len(fs) >= MAX_QUADRANTS

AppendRing ==
  /\ ~RingAddDisabled(rings)
  /\ rings' = FieldArrayAppend(rings, [value |-> ""])
  /\ UNCHANGED <<formVars, submitVars, quadrants>>

RemoveRing(index) ==
  /\ index \in DOMAIN rings
  /\ rings' = FieldArrayRemove(rings, index)
  /\ UNCHANGED <<formVars, submitVars, quadrants>>

EditRing(index, text) ==
  /\ index \in DOMAIN rings
  /\ rings' = [rings EXCEPT ![index].value = text]
  /\ UNCHANGED <<formVars, submitVars, quadrants>>

AppendQuadrant ==
  /\ ~QuadrantAddDisabled(quadrants)
  /\ quadrants' = FieldArrayAppend(quadrants, [value |-> ""])
  /\ UNCHANGED <<formVars, submitVars, rings>>

RemoveQuadrant(index) ==
  /\ index \in DOMAIN quadrants
  /\ quadrants' = FieldArrayRemove(quadrants, index)
  /\ UNCHANGED <<formVars, submitVars, rings>>

EditQuadrant(index, text) ==
  /\ index \in DOMAIN quadrants
  /\ quadrants' = [quadrants EXCEPT ![index].value = text]
  /\ UNCHANGED <<formVars, submitVars, rings>>

formatFieldsToObjects(strings) == [i \in DOMAIN strings |-> [value |-> strings[i]]]

----------------------------------------------------------------------------
(* Specifications *)

Mounted ==
  /\ radars = Pending
  /\ item = Pending
  /\ itemRadars = EmptyObject
  /\ fields = defaultValues.radars
  /\ crashed = FALSE
  /\ isSubmitting = FALSE
  /\ submission = "idle"
  /\ serviceCalls = <<>>
  /\ snackbars = <<>>

\* An editing session of the item form
Init ==
  /\ serverRadars \in FormCatalogs
  /\ itemId \in BOOLEAN
  /\ serverItem \in (IF itemId THEN FormItems ELSE {<<>>})
  /\ Mounted
  /\ rings = <<>>
  /\ quadrants = <<>>

Next ==
  \/ RadarsFetched
  \/ ItemFetched
  \/ AppendRow
  \/ \E index \in DOMAIN fields : RemoveRow(index)
  \/ \E index \in DOMAIN fields, selected \in Range(getRadarsList(radars.data)) :
        ChangeRadar(index, selected)
  \/ \E index \in DOMAIN fields, q \in QuadrantNames :
        SelectQuadrant(index, formatSelectItem(q))
  \/ \E index \in DOMAIN fields :
        \E pos \in DOMAIN fields[index].quadrants : DeselectQuadrant(index, pos)

Spec == Init /\ [][Next]_vars

\* Loading an item and submitting the form
InitLoad ==
  /\ serverRadars \in Catalogs
  /\ itemId \in BOOLEAN
  /\ serverItem \in (IF itemId THEN WireLists ELSE {<<>>})
  /\ Mounted
  /\ rings = <<>>
  /\ quadrants = <<>>

NextLoad ==
  \/ RadarsFetched
  \/ ItemFetched
  \/ SubmitClick
  \/ ValidationFails
  \/ ValidationPasses
  \/ ServiceResolves
  \/ ServiceRejects

SpecLoad == InitLoad /\ [][NextLoad]_vars

\* Editing the rings and quadrants of a radar
InitEditors ==
  /\ serverRadars = <<>>
  /\ itemId = FALSE
  /\ serverItem = <<>>
  /\ Mounted
  /\ rings \in {formatFieldsToObjects(s) : s \in UNION {[1..n -> Labels] : n \in 0..MAX_RINGS}}
  /\ quadrants \in {formatFieldsToObjects(s) : s \in UNION {[1..n -> Labels] : n \in 0..MAX_QUADRANTS}}

NextEditors ==
  \/ AppendRing
  \/ \E index \in 1..MAX_RINGS : RemoveRing(index)
  \/ \E index \in 1..MAX_RINGS, text \in Labels : EditRing(index, text)
  \/ AppendQuadrant
  \/ \E index \in 1..MAX_QUADRANTS : RemoveQuadrant(index)
  \/ \E index \in 1..MAX_QUADRANTS, text \in Labels : EditQuadrant(index, text)

SpecEditors == InitEditors /\ [][NextEditors]_vars

----------------------------------------------------------------------------
(* Vocabulary of the properties *)

\* the radar ids of a wire list, each once, in order of first appearance
RECURSIVE FirstSeenIds(_)
FirstSeenIds(wire) ==
  IF wire = <<>> THEN <<>>
  ELSE LET before == FirstSeenIds(SubSeq(wire, 1, Len(wire) - 1))
           id == wire[Len(wire)].id
       IN  IF id \in Range(before) THEN before ELSE Append(before, id)

\* the quadrants a wire list gives for one radar id, in wire order
RECURSIVE WireQuadrantsOf(_, _)
WireQuadrantsOf(wire, id) ==
  IF wire = <<>> THEN <<>>
  ELSE IF Head(wire).id = id
    THEN <<Head(wire).quadrant>> \o WireQuadrantsOf(Tail(wire), id)
    ELSE WireQuadrantsOf(Tail(wire), id)

Options(qs) == [i \in DOMAIN qs |-> [id |-> qs[i], label |-> qs[i]]]

CatalogIds(catalog) == {catalog[i].id : i \in DOMAIN catalog}

CatalogEntry(catalog, id) == CHOOSE r \in Range(catalog) : r.id = id

AllInCatalog(catalog, wire) == \A i \in DOMAIN wire : wire[i].id \in CatalogIds(catalog)

Count(s, e) == Cardinality({i \in DOMAIN s : s[i] = e})

SameMultiset(s, t) == \A e \in Range(s) \cup Range(t) : Count(s, e) = Count(t, e)

BothLoaded == Loaded(radars) /\ Loaded(item)

----------------------------------------------------------------------------
(* Properties *)

\* C1: once the catalog is loaded the number of association rows never
\* exceeds the number of radars in the catalog.
C1_RowsWithinCatalog ==
  Loaded(radars) => Len(fields) <= Len(radars.data)

\* C2: no two association rows with a non-empty radarId hold the same radarId.
C2_RadarAtMostOnce ==
  \A i, j \in DOMAIN fields :
    (i # j /\ fields[i].radarId # "") => fields[i].radarId # fields[j].radarId

\* C3: for a wire list whose radar ids are all in the catalog, the reconciled
\* form holds one row per distinct radar id, in order of first appearance in
\* the wire list, labelled with the catalog name, its quadrant options the
\* radar's wire quadrants in wire order, each wrapped as {id, label}.
C3_RowsInFirstSeenOrder ==
  (BothLoaded /\ AllInCatalog(radars.data, item.data)) =>
    LET ids == FirstSeenIds(item.data)
    IN  /\ Len(fields) = Len(ids)
        /\ \A k \in DOMAIN ids :
             fields[k] = [radarId |-> ids[k],
                          label |-> CatalogEntry(radars.data, ids[k]).name,
                          quadrants |-> Options(WireQuadrantsOf(item.data, ids[k]))]

\* C4: selecting catalog radar R for row i sets the row's radarId to R, its
\* label to R's catalog name, and its quadrant options to the loaded item's
\* quadrants for R when the item has any, else to all quadrants R defines in
\* the catalog, in catalog order.
C4_RadarSelection ==
  [][\A index \in DOMAIN fields : \A selected \in Range(getRadarsList(radars.data)) :
       ChangeRadar(index, selected) =>
         LET R == selected.id
             persisted == IF Loaded(item) THEN WireQuadrantsOf(item.data, R) ELSE <<>>
         IN  /\ Len(fields') = Len(fields)
             /\ \A j \in DOMAIN fields : j # index => fields'[j] = fields[j]
             /\ fields'[index] =
                  [radarId |-> R,
                   label |-> CatalogEntry(radars.data, R).name,
                   quadrants |-> IF persisted # <<>>
                                   THEN Options(persisted)
                                   ELSE Options(CatalogEntry(radars.data, R).quadrants)]]_vars

\* a row holding all quadrants of a radar the item is not placed in, and a
\* later row holding the persisted quadrants of a radar the item is placed in
C4_Witness ==
  /\ BothLoaded
  /\ \E i \in DOMAIN fields :
       /\ fields[i].radarId \in CatalogIds(radars.data)
       /\ WireQuadrantsOf(item.data, fields[i].radarId) = <<>>
       /\ Len(fields[i].quadrants) >= 2
       /\ fields[i].quadrants = Options(CatalogEntry(radars.data, fields[i].radarId).quadrants)
  /\ \E j \in DOMAIN fields :
       /\ j > Len(FirstSeenIds(item.data))
       /\ fields[j].radarId \in CatalogIds(radars.data)
       /\ WireQuadrantsOf(item.data, fields[j].radarId) # <<>>
       /\ fields[j].quadrants = Options(WireQuadrantsOf(item.data, fields[j].radarId))
       /\ fields[j].quadrants # Options(CatalogEntry(radars.data, fields[j].radarId).quadrants)

\* C5: for a wire list W whose radar ids are all in the catalog, flattening
\* the reconciled rows into one pair per selected quadrant option gives the
\* multiset W, duplicated pairs included.
C5_RoundTrip ==
  (BothLoaded /\ AllInCatalog(radars.data, item.data)) =>
    SameMultiset(transformItemFormData(fields), item.data)

\* a submitted payload that flattens a wire list with a duplicated pair
C5_Witness ==
  /\ BothLoaded
  /\ submission = "awaiting"
  /\ Len(item.data) = 3
  /\ item.data[1] = item.data[3]
  /\ item.data[1].id # item.data[2].id
  /\ Len(serviceCalls) = 1
  /\ Len(serviceCalls[1].data) = 3
  /\ SameMultiset(serviceCalls[1].data, item.data)

\* C6: a fetch completing while the other is unresolved leaves the rows and
\* the itemRadars map as they were, the map still empty; the fetch completing
\* second, in either order, sets the rows and the map to what the catalog and
\* the item alone determine, whatever the rows were before.
C6_GatedOnBothFetches ==
  [][(radars' # radars \/ item' # item) =>
       IF Loaded(radars') /\ Loaded(item')
         THEN IF AllInCatalog(serverRadars, serverItem)
                THEN /\ fields' = FormattedItemRadars(serverRadars, serverItem)
                     /\ itemRadars' = ItemRadarsMapOf(serverItem)
                ELSE crashed' /\ fields' = fields /\ itemRadars' = itemRadars
         ELSE /\ fields' = fields
              /\ itemRadars' = EmptyObject]_vars

\* both fetches resolved and three wire pairs were reconciled into two rows
C6_Witness ==
  /\ BothLoaded
  /\ ~crashed
  /\ Len(serverItem) = 3
  /\ Len(fields) = 2
  /\ fields = FormattedItemRadars(serverRadars, serverItem)
  /\ itemRadars = ItemRadarsMapOf(serverItem)

\* C7: the ring and the quadrant list never grow beyond 4 entries, and
\* removing position i keeps every other entry, in order.
C7_EditorsBounded ==
  /\ [](Len(rings) <= MAX_RINGS /\ Len(quadrants) <= MAX_QUADRANTS)
  /\ [][\A index \in DOMAIN rings :
          RemoveRing(index) =>
            /\ Len(rings') = Len(rings) - 1
            /\ \A j \in 1..(index - 1) : rings'[j] = rings[j]
            /\ \A j \in index..(Len(rings) - 1) : rings'[j] = rings[j + 1]]_vars
  /\ [][\A index \in DOMAIN quadrants :
          RemoveQuadrant(index) =>
            /\ Len(quadrants') = Len(quadrants) - 1
            /\ \A j \in 1..(index - 1) : quadrants'[j] = quadrants[j]
            /\ \A j \in index..(Len(quadrants) - 1) : quadrants'[j] = quadrants[j + 1]]_vars

\* both lists full, the last entry of each an appended one, so that the
\* append of each is disabled
C7_Witness ==
  /\ Len(rings) = MAX_RINGS
  /\ rings[MAX_RINGS].value = ""
  /\ rings[1].value = "b"
  /\ Len(quadrants) = MAX_QUADRANTS
  /\ quadrants[MAX_QUADRANTS].value = ""
  /\ ~ENABLED AppendRing
  /\ ~ENABLED AppendQuadrant

\* C8: a submission that passed validation has made exactly one service call,
\* updateRadarItem when an itemId is present and createRadarItem otherwise;
\* while the call is pending the form is busy, no notification has been sent
\* and no further submission can start; once it has settled the form is no
\* longer busy and exactly one notification has been sent, 'success' if the
\* call resolved and 'alert' if it rejected.
C8_SingleCallSingleNotice ==
  /\ \A k \in DOMAIN serviceCalls :
       serviceCalls[k].service = IF itemId THEN "updateRadarItem" ELSE "createRadarItem"
  /\ submission = "awaiting" =>
       /\ isSubmitting
       /\ ~ENABLED SubmitClick
       /\ Len(serviceCalls) = 1
       /\ snackbars = <<>>
  /\ submission \in {"resolved", "rejected"} =>
       /\ ~isSubmitting
       /\ Len(serviceCalls) = 1
       /\ snackbars = <<[status |-> IF submission = "resolved" THEN "success" ELSE "alert"]>>

\* an update that rejected
C8_Witness ==
  /\ itemId
  /\ submission = "rejected"
  /\ ~isSubmitting
  /\ snackbars = <<[status |-> "alert"]>>
  /\ Len(serviceCalls) = 1
  /\ serviceCalls[1].service = "updateRadarItem"

\* C9 as stated: every quadrant option of a row whose radar is in the catalog
\* is a quadrant that radar defines in the catalog.
C9_OnlyDefinedQuadrants ==
  Loaded(radars) =>
    \A i \in DOMAIN fields :
      fields[i].radarId \in CatalogIds(radars.data) =>
        \A k \in DOMAIN fields[i].quadrants :
          fields[i].quadrants[k].id \in Range(CatalogEntry(radars.data, fields[i].radarId).quadrants)

\* C9 as amended: every quadrant option of a row whose radar is in the catalog
\* is a quadrant that radar defines in the catalog or a quadrant the loaded
\* item is placed in for that radar.
C9_DefinedOrPersisted ==
  Loaded(radars) =>
    \A i \in DOMAIN fields :
      fields[i].radarId \in CatalogIds(radars.data) =>
        \A k \in DOMAIN fields[i].quadrants :
          \/ fields[i].quadrants[k].id \in Range(CatalogEntry(radars.data, fields[i].radarId).quadrants)
          \/ /\ Loaded(item)
             /\ fields[i].quadrants[k].id \in Range(WireQuadrantsOf(item.data, fields[i].radarId))

\* a row set by a radar selection to all of its radar's quadrants, next to a
\* row holding a persisted quadrant its radar does not define
C9_Witness ==
  /\ BothLoaded
  /\ \E i \in DOMAIN fields :
       /\ fields[i].radarId \in CatalogIds(radars.data)
       /\ WireQuadrantsOf(item.data, fields[i].radarId) = <<>>
       /\ fields[i].quadrants = Options(CatalogEntry(radars.data, fields[i].radarId).quadrants)
       /\ fields[i].quadrants # <<>>
  /\ \E j \in DOMAIN fields :
       /\ fields[j].radarId \in CatalogIds(radars.data)
       /\ \E k \in DOMAIN fields[j].quadrants :
            fields[j].quadrants[k].id \notin Range(CatalogEntry(radars.data, fields[j].radarId).quadrants)

\* C10: a removal happens only while more than one row exists, deletes the
\* row at its index and keeps every other row's radarId, label and
\* quadrants, so it never leaves the form without a row.
C10_RemoveExactlyOne ==
  [][\A index \in DOMAIN fields :
       RemoveRow(index) =>
         /\ Len(fields) > 1
         /\ Len(fields') = Len(fields) - 1
         /\ Len(fields') >= 1
         /\ \A j \in 1..(index - 1) : fields'[j] = fields[j]
         /\ \A j \in index..(Len(fields) - 1) : fields'[j] = fields[j + 1]]_vars

\* the item was reconciled into two rows and the first has been removed
C10_Witness ==
  /\ BothLoaded
  /\ ~crashed
  /\ Len(FormattedItemRadars(serverRadars, serverItem)) = 2
  /\ fields = <<FormattedItemRadars(serverRadars, serverItem)[2]>>

====
